---- MODULE Spec2Model ----
(***************************************************************************)
(* Model of the weather ingestion programs of this repository:             *)
(*   src/ingest/zebrafell_scraper.py  ZebrafellScraper.backfill_history,   *)
(*                                    fetch_chunk, process_data,           *)
(*                                    flush_buffer (CSV data lake)         *)
(*   src/ingest/main.py               the InfluxDB driver: health probes,  *)
(*                                    initial_backfill, hourly_job,        *)
(*                                    write_to_influx                      *)
(* Time is counted in ticks; a day has TicksPerDay ticks.  A datetime is   *)
(* the number of ticks since the epoch.                                    *)
(***************************************************************************)
EXTENDS Integers, Sequences, FiniteSets, TLC

(***************************************************************************)
(* Bounds of the model.                                                    *)
(***************************************************************************)
\* resolution of the clock: ticks per calendar day
TicksPerDay == 2
\* the backfill starts at most this many windows after its stop date
MaxWindows == 5
\* how often the environment may deviate in one run: a failed fetch, an empty,
\* revised or malformed payload, a failed write, a stop signal
MaxFaults == 1
\* small start offsets (ticks after the stop date) of the end-to-end runs
MaxNowE2E == 20
\* hourly_job runs of one service run
MaxJobs == 2
\* the snapshots of the sink checks hold windows lo..hi, lo <= MaxLo, hi <= MaxHi
MaxLo == 5
MaxHi == 12
\* latest time (ticks after the stop date) at which a metric's records end
MaxOutageEnd == 3

(***************************************************************************)
(* Program constants.                                                      *)
(***************************************************************************)
\* days=7 of fetch_chunk and timedelta(days=7) of backfill_history
SpanDays == 7
\* len(monthly_buffer["temp"]) >= 4
FlushThreshold == 4
\* get_timestamp_ms: int(dt.timestamp() * 1000); one tick stands for one second
MsPerTick == 1000

METRICS == <<"temp", "wind", "rain", "press", "sun">>

MetricKeys == {METRICS[i] : i \in 1..Len(METRICS)}

SpanTicks == SpanDays * TicksPerDay

VARIABLES
    pc,              \* position of backfill_history
    current_date,    \* backfill_history's current_date (ticks)
    end_date,        \* backfill_history's end_date (ticks)
    mi,              \* position of the for loop over METRICS.items()
    monthly_buffer,  \* metric -> list of DataFrames
    data_lake,       \* OUTPUT_DIR: file name -> the DataFrame written to it
    faultsLeft,      \* deviations the environment may still produce
    start_anchor,    \* history: current_date when backfill_history started
    windows,         \* history: iterations of the while loop begun
    outcome,         \* history: metric -> what its fetch of this window gave
    permAt,          \* history: window of the first permanent fetch failure
    flushLog,        \* history: the value of windows at each flush_buffer call
    lastFlushed,     \* history: the buffer given to the last flush_buffer call
    flushFailed,     \* history: a to_csv of flush_buffer raised
    fetched,         \* history: every (metric, timestamp, value) normalized
    crashBy,         \* history: what raised out of backfill_history
    sleeps,          \* history: time.sleep(1.5) calls
    dataEnd          \* the source: metric -> time of its last record

scraperVars == <<pc, current_date, end_date, mi, monthly_buffer, data_lake,
                 faultsLeft, start_anchor, windows, outcome, permAt, flushLog,
                 lastFlushed, flushFailed, fetched, crashBy, sleeps, dataEnd>>

VARIABLES
    mpc,             \* position of main.py's __main__ block
    probes,          \* iterations of `for _ in range(10)` begun
    probeOk,         \* history: a health() call returned
    waits,           \* history: time.sleep(5) calls
    influx,          \* the bucket: (measurement, source tag, time) -> fields
    meteo_df,        \* main.py's df, from fetch_open_meteo to write_to_influx
    today,           \* the current day
    jobs,            \* hourly_job runs begun
    coverageQuery,   \* history: the bucket and the day the coverage query saw
    backfillRuns,    \* history: fetches of initial_backfill begun
    jobLog,          \* history: what the fetch of each hourly_job run did
    influxAtFetch    \* history: the bucket when the last hourly_job run began

mainVars == <<mpc, probes, probeOk, waits, influx, meteo_df, today, jobs,
              coverageQuery, backfillRuns, jobLog, influxAtFetch>>

VARIABLES
    applied,         \* sink check: flush_buffer applications to the snapshot
    wapplied,        \* sink check: write_to_influx applications to the snapshot
    once,            \* sink check: data_lake after the first application
    wonce            \* sink check: influx after the first application

sinkVars == <<applied, wapplied, once, wonce>>

vars == <<scraperVars, mainVars, sinkVars>>

(***************************************************************************)
(* DataFrames: a DataFrame is a sequence of rows [idx, val], idx being the *)
(* datetime_utc index and val the metric's column.                         *)
(***************************************************************************)
EmptyBuffer == [m \in MetricKeys |-> << >>]

RECURSIVE concat(_)
concat(data_list) ==
    IF data_list = << >> THEN << >>
    ELSE Head(data_list) \o concat(Tail(data_list))

\* mutant: no row counts as a duplicate
duplicated_never(df, i) == FALSE

\* mutant: keep="last", a row is dropped when a later row repeats its index
duplicated_keep_last(df, i) == \E j \in (i + 1)..Len(df) : df[j].idx = df[i].idx

\* index.duplicated(keep="first"): row i repeats the index of an earlier row
duplicated(df, i) == \E j \in 1..(i - 1) : df[j].idx = df[i].idx

RECURSIVE FilterFrom(_, _)
FilterFrom(df, i) ==
    IF i > Len(df) THEN << >>
    ELSE IF duplicated(df, i) THEN FilterFrom(df, i + 1)
         ELSE <<df[i]>> \o FilterFrom(df, i + 1)

\* combined_df[~combined_df.index.duplicated(keep="first")]
drop_duplicated(df) == FilterFrom(df, 1)

RECURSIVE InsertSorted(_, _)
InsertSorted(row, df) ==
    IF df = << >> THEN <<row>>
    ELSE IF row.idx <= Head(df).idx THEN <<row>> \o df
         ELSE <<Head(df)>> \o InsertSorted(row, Tail(df))

\* mutant: the rows stay in the order of the concatenation
sort_index_skipped(df) == df

\* sort_index(): the rows by ascending index, rows of equal index in their order
RECURSIVE sort_index(_)
sort_index(df) ==
    IF df = << >> THEN << >>
    ELSE InsertSorted(df[1], sort_index(Tail(df)))

\* strftime("%Y-%m-%d"): the calendar day of a datetime
strftime(t) == t \div TicksPerDay

\* the combined DataFrame flush_buffer writes for one metric
combined(data_list) == sort_index(drop_duplicated(concat(data_list)))

\* f"{OUTPUT_DIR}/{metric}_{timestamp_str}.csv"
filename(metric, combined_df) ==
    <<metric, strftime(combined_df[Len(combined_df)].idx)>>

\* mutant: mode="a", the rows are appended to an existing file
to_csv_append(lake, fn, df) ==
    (fn :> (IF fn \in DOMAIN lake THEN lake[fn] \o df ELSE df)) @@ lake

\* DataFrame.to_csv(filename): creates or overwrites the file
to_csv(lake, fn, df) == (fn :> df) @@ lake

\* flush_buffer's loop over buffer.items(), from the i-th metric on; the to_csv
\* of the failAt-th metric raises (failAt = 0: none does)
RECURSIVE flush_from(_, _, _, _)
flush_from(lake, buffer, i, failAt) ==
    IF i > Len(METRICS) \/ i = failAt THEN lake
    ELSE LET data_list == buffer[METRICS[i]]
             df == combined(data_list)
         IN  IF data_list = << >>
             THEN flush_from(lake, buffer, i + 1, failAt)
             ELSE flush_from(to_csv(lake, filename(METRICS[i], df), df),
                             buffer, i + 1, failAt)

flush_buffer(lake, buffer, failAt) == flush_from(lake, buffer, 1, failAt)

\* the metrics whose to_csv may raise: those flush_buffer writes a file for
CanFailAt(buffer) == {i \in 1..Len(METRICS) : buffer[METRICS[i]] # << >>}

(***************************************************************************)
(* The source API and fetch_chunk.                                         *)
(***************************************************************************)
\* int(dt.timestamp() * 1000); timestamp() reads the naive utcnow() value in the
\* host's zone, taken to be UTC here
get_timestamp_ms(dt) == dt * MsPerTick

\* the value the source reports for a metric at a time, in its rev-th revision
SourceValue(metric, t_ms, rev) == ((t_ms \div MsPerTick) % 3) + 10 * rev

\* the records {t, v} of the window [bis - tage days, bis], both ends included
Payload(metric, bis_ts, days, rev) ==
    LET lo  == bis_ts - (days * TicksPerDay * MsPerTick)
        mid == bis_ts - (((days * TicksPerDay) \div 2) * MsPerTick)
    IN  << [t |-> lo,     v |-> SourceValue(metric, lo, rev)],
           [t |-> mid,    v |-> SourceValue(metric, mid, rev)],
           [t |-> bis_ts, v |-> SourceValue(metric, bis_ts, rev)] >>

\* the records the source holds for the window: a metric has no record after
\* dataEnd, its last record is at dataEnd
SourceRecords(metric, bis_ts, days, rev) ==
    LET p    == Payload(metric, bis_ts, days, rev)
        end  == get_timestamp_ms(dataEnd[metric])
        kept == SelectSeq(p, LAMBDA r : r.t <= end)
    IN  IF p[1].t <= end /\ end <= bis_ts /\ \A i \in 1..Len(p) : p[i].t # end
        THEN Append(kept, [t |-> end, v |-> SourceValue(metric, end, rev)])
        ELSE kept

\* a JSON null as a record's value, and the NaN pandas holds for it; the
\* source's values are not negative
NaN == -1

\* the records with the value of the second one null
with_null(records) ==
    [i \in 1..Len(records) |->
        IF i = 2 THEN [t |-> records[i].t, v |-> NaN] ELSE records[i]]

FaultKinds == {"revised", "empty", "transient", "permanent", "malformed", "nulls"}

\* what the session's GET may do: "data" the window's records, "revised" the
\* records after the source revised its values, "empty" an empty list,
\* "transient" a 5xx after the retries, "permanent" a 4xx or a malformed URL,
\* "malformed" a 200 whose JSON body is an object, not the list of records,
\* "nulls" the window's records with a null value among them
Kinds(budget) == IF budget > 0 THEN {"data"} \cup FaultKinds ELSE {"data"}

\* mutant: the except clause catches the retry exhaustion and lets an HTTP
\* error status through
caught_transient_only(kind) == kind = "transient"

\* mutant: except requests.exceptions.HTTPError, which a retry exhaustion is not
caught_http_only(kind) == kind = "permanent"

\* whether the except clause of fetch_chunk catches the failure: both kinds
\* are requests.exceptions.RequestException
caught(kind) == kind \in {"transient", "permanent"}

raises(kind) == kind \in {"transient", "permanent"}

\* fetch_chunk's result, response.json(): [none |-> TRUE] is None, object
\* tells a JSON object from a list
fetch_chunk(kind, metric, bis_ts, days) ==
    IF raises(kind) THEN [none |-> TRUE, object |-> FALSE, data |-> << >>]
    ELSE IF kind = "empty" THEN [none |-> FALSE, object |-> FALSE, data |-> << >>]
    ELSE IF kind = "malformed" THEN [none |-> FALSE, object |-> TRUE, data |-> << >>]
    ELSE IF kind = "nulls"
    THEN [none |-> FALSE, object |-> FALSE,
          data |-> with_null(SourceRecords(metric, bis_ts, days, 0))]
    ELSE [none |-> FALSE, object |-> FALSE,
          data |-> SourceRecords(metric, bis_ts, days,
                                 IF kind = "revised" THEN 1 ELSE 0)]

\* Python's truth value of raw_data: None, [] and {} are false
truthy(raw) == ~raw.none /\ (raw.object \/ raw.data # << >>)

\* process_data raises: pd.DataFrame of an object of scalars is a ValueError,
\* and an object of lists has no column "t"
process_raises(raw_data) == truthy(raw_data) /\ raw_data.object

\* mutant: dropna(), the records without a value give no row
process_data_dropna(raw_data, metric) ==
    IF ~truthy(raw_data) \/ process_raises(raw_data) THEN << >>
    ELSE LET kept == SelectSeq(raw_data.data, LAMBDA r : r.v # NaN)
         IN  [i \in 1..Len(kept) |->
                [idx |-> kept[i].t \div MsPerTick, val |-> kept[i].v]]

\* process_data: index the records by datetime_utc, name the column
process_data(raw_data, metric) ==
    IF ~truthy(raw_data) \/ process_raises(raw_data) THEN << >>
    ELSE [i \in 1..Len(raw_data.data) |->
            [idx |-> raw_data.data[i].t \div MsPerTick, val |-> raw_data.data[i].v]]

(***************************************************************************)
(* backfill_history                                                        *)
(***************************************************************************)
\* mutant: while current_date >= end_date
loop_cond_ge(cur, end) == cur >= end

\* while current_date > end_date
loop_cond(cur, end) == cur > end

\* current_date -= datetime.timedelta(days=7)
step_back(cur) == cur - SpanTicks

\* mutant: > instead of >=
should_flush_gt(buffer) == Len(buffer["temp"]) > FlushThreshold

\* len(monthly_buffer["temp"]) >= 4
should_flush(buffer) == Len(buffer["temp"]) >= FlushThreshold

NoOutcome == [m \in MetricKeys |-> "none"]

\* the source holds records of every metric up to the start of the run
NoOutage == [m \in MetricKeys |-> current_date + 1]

Rows(metric, df) == {<<metric, df[i].idx, df[i].val>> : i \in 1..Len(df)}

InitBackfill(offsets, budget) ==
    /\ pc = "while"
    /\ end_date = 0
    /\ current_date \in {end_date + d : d \in offsets}
    /\ start_anchor = current_date
    /\ mi = 1
    /\ monthly_buffer = EmptyBuffer
    /\ data_lake = << >>
    /\ faultsLeft = budget
    /\ windows = 0
    /\ outcome = NoOutcome
    /\ permAt = 0
    /\ flushLog = << >>
    /\ lastFlushed = EmptyBuffer
    /\ flushFailed = FALSE
    /\ fetched = {}
    /\ crashBy = "none"
    /\ sleeps = 0

\* line 131: the loop test; line 132 computes bis_ts from current_date
While ==
    /\ pc = "while"
    /\ IF loop_cond(current_date, end_date)
       THEN /\ pc' = "fetch"
            /\ windows' = windows + 1
       ELSE /\ pc' = "final"
            /\ UNCHANGED windows
    /\ mi' = 1
    /\ outcome' = NoOutcome
    /\ UNCHANGED <<current_date, end_date, monthly_buffer, data_lake, faultsLeft,
                   start_anchor, permAt, flushLog, lastFlushed, flushFailed, fetched,
                   crashBy, sleeps, dataEnd, mainVars, sinkVars>>

\* lines 134-140: one iteration of the for loop over the metrics
Fetch ==
    /\ pc = "fetch"
    /\ \E kind \in Kinds(faultsLeft) :
         LET metric == METRICS[mi]
             raw_data == fetch_chunk(kind, metric, get_timestamp_ms(current_date), SpanDays)
             df == process_data(raw_data, metric)
         IN  /\ faultsLeft' = IF kind = "data" THEN faultsLeft ELSE faultsLeft - 1
             /\ outcome' = [outcome EXCEPT ![metric] = kind]
             /\ permAt' = IF kind = "permanent" /\ permAt = 0 THEN windows ELSE permAt
             /\ IF (raises(kind) /\ ~caught(kind)) \/ process_raises(raw_data)
                THEN /\ pc' = "crashed"
                     /\ crashBy' = IF raises(kind) THEN "fetch" ELSE "normalize"
                     /\ monthly_buffer' = EmptyBuffer
                     /\ UNCHANGED <<mi, fetched>>
                ELSE /\ UNCHANGED crashBy
                     /\ monthly_buffer' =
                          IF truthy(raw_data) /\ df # << >>
                          THEN [monthly_buffer EXCEPT ![metric] = Append(@, df)]
                          ELSE monthly_buffer
                     /\ fetched' = fetched \cup Rows(metric, df)
                     /\ IF mi < Len(METRICS)
                        THEN /\ mi' = mi + 1
                             /\ pc' = "fetch"
                        ELSE /\ mi' = 1
                             /\ pc' = "advance"
    /\ UNCHANGED <<current_date, end_date, data_lake, start_anchor, windows,
                   flushLog, lastFlushed, flushFailed, sleeps, dataEnd,
                   mainVars, sinkVars>>

\* line 143
Advance ==
    /\ pc = "advance"
    /\ current_date' = step_back(current_date)
    /\ pc' = "check"
    /\ UNCHANGED <<end_date, mi, monthly_buffer, data_lake, faultsLeft, start_anchor,
                   windows, outcome, permAt, flushLog, lastFlushed, flushFailed, fetched,
                   crashBy, sleeps, dataEnd, mainVars, sinkVars>>

\* flush_buffer(buffer) called from position `from`, going on at `to`; an
\* exception of to_csv leaves backfill_history, and the buffer with it
CallFlush(to, reset) ==
    /\ flushLog' = Append(flushLog, windows)
    /\ lastFlushed' = monthly_buffer
    /\ \E failAt \in {0} \cup (IF faultsLeft > 0 THEN CanFailAt(monthly_buffer) ELSE {}) :
         /\ data_lake' = flush_buffer(data_lake, monthly_buffer, failAt)
         /\ IF failAt = 0
            THEN /\ pc' = to
                 /\ monthly_buffer' = IF reset THEN EmptyBuffer ELSE monthly_buffer
                 /\ UNCHANGED <<faultsLeft, flushFailed, crashBy>>
            ELSE /\ pc' = "crashed"
                 /\ monthly_buffer' = EmptyBuffer
                 /\ faultsLeft' = faultsLeft - 1
                 /\ flushFailed' = TRUE
                 /\ crashBy' = "flush"

\* mutant: the flush branch ends with `continue`, the loop test comes next
after_check_continue(flushed) == IF flushed THEN "while" ELSE "sleep"

\* where the loop body goes on after the if of line 147, the branch taken or
\* not: at the time.sleep(1.5) of line 152
after_check(flushed) == "sleep"

\* lines 147-149
Check ==
    /\ pc = "check"
    /\ IF should_flush(monthly_buffer)
       THEN CallFlush(after_check(TRUE), TRUE)
       ELSE /\ pc' = after_check(FALSE)
            /\ UNCHANGED <<monthly_buffer, data_lake, faultsLeft, flushLog,
                           lastFlushed, flushFailed, crashBy>>
    /\ UNCHANGED <<current_date, end_date, mi, start_anchor, windows, outcome,
                   permAt, fetched, sleeps, dataEnd,
                   mainVars, sinkVars>>

\* line 152: time.sleep(1.5)
Sleep ==
    /\ pc = "sleep"
    /\ pc' = "while"
    /\ sleeps' = sleeps + 1
    /\ UNCHANGED <<current_date, end_date, mi, monthly_buffer, data_lake, faultsLeft,
                   start_anchor, windows, outcome, permAt, flushLog, lastFlushed,
                   flushFailed, fetched, crashBy, dataEnd,
                   mainVars, sinkVars>>

\* lines 155-156: the final flush
Final ==
    /\ pc = "final"
    /\ CallFlush("done", FALSE)
    /\ UNCHANGED <<current_date, end_date, mi, start_anchor, windows, outcome,
                   permAt, fetched, sleeps, dataEnd,
                   mainVars, sinkVars>>

NextBackfill == While \/ Fetch \/ Advance \/ Check \/ Sleep \/ Final

\* a stop signal: KeyboardInterrupt is raised at the statement backfill_history
\* is at; no try of lines 118-156 catches it, the call is unwound and its
\* local monthly_buffer is gone
Interrupt ==
    /\ pc \in {"while", "fetch", "advance", "check", "sleep", "final"}
    /\ faultsLeft > 0
    /\ faultsLeft' = faultsLeft - 1
    /\ pc' = "interrupted"
    /\ crashBy' = "interrupt"
    /\ monthly_buffer' = EmptyBuffer
    /\ UNCHANGED <<current_date, end_date, mi, data_lake, start_anchor, windows,
                   outcome, permAt, flushLog, lastFlushed, flushFailed, fetched,
                   sleeps, dataEnd, mainVars, sinkVars>>

(***************************************************************************)
(* main.py                                                                 *)
(***************************************************************************)
\* for _ in range(10)
MaxProbes == 10
\* range(start: -1y) of the coverage query, in days
CoverageDays == 365
\* fetch_open_meteo(days_past=730, days_future=1) of initial_backfill
BackfillPastDays == 730
BackfillFutureDays == 1
\* fetch_open_meteo(days_past=1, days_future=3) of hourly_job
JobPastDays == 1
JobFutureDays == 3

NoneDf == [none |-> TRUE, rows |-> << >>]

\* the hourly record of Open-Meteo at a time, in the forecast's rev-th revision
MeteoRow(t, rev) ==
    [time |-> t, temperature |-> (t % 3) + 10 * rev, pressure |-> 1000 + rev,
     wind_speed |-> (t % 2) + rev]

\* the `hourly` arrays for past_days and forecast_days around today: the first
\* record, today's and the last
MeteoRows(day, past, future, rev) ==
    << MeteoRow(day - past, rev) >>
    \o (IF past > 0 THEN << MeteoRow(day, rev) >> ELSE << >>)
    \o (IF future > 1 THEN << MeteoRow(day + future - 1, rev) >> ELSE << >>)

\* what requests.get may do for fetch_open_meteo
MeteoKinds == {"data", "revised", "error"}

\* mutant: the exception is caught after the first record was parsed, and
\* the records parsed so far are returned
fetch_open_meteo_partial(kind, day, days_past, days_future) ==
    [none |-> FALSE,
     rows |-> IF kind = "error"
              THEN << MeteoRow(day - days_past, 0) >>
              ELSE MeteoRows(day, days_past, days_future,
                             IF kind = "revised" THEN 1 ELSE 0)]

\* fetch_open_meteo: the DataFrame, or None after any exception
fetch_open_meteo(kind, day, days_past, days_future) ==
    IF kind = "error" THEN NoneDf
    ELSE [none |-> FALSE,
          rows |-> MeteoRows(day, days_past, days_future,
                             IF kind = "revised" THEN 1 ELSE 0)]

\* Point("weather").tag("source", "open_meteo").field(...).time(row['time'])
Point(row) ==
    [key |-> <<"weather", "open_meteo", row.time>>,
     fields |-> [temperature |-> row.temperature, pressure |-> row.pressure,
                 wind_speed |-> row.wind_speed]]

\* write_api.write of one point: the bucket keeps one point per measurement,
\* tag set and time, the later write replacing the fields
upsert(bucket, p) == (p.key :> p.fields) @@ bucket

RECURSIVE write_points(_, _)
write_points(bucket, points) ==
    IF points = << >> THEN bucket
    ELSE write_points(upsert(bucket, Head(points)), Tail(points))

\* write_to_influx: the bucket after it; ok is whether write_api.write returned
write_to_influx(bucket, frame, ok) ==
    IF frame.none \/ frame.rows = << >> THEN bucket
    ELSE LET points == [i \in 1..Len(frame.rows) |-> Point(frame.rows[i])]
         IN  IF ok THEN write_points(bucket, points) ELSE bucket

\* mutant: the count runs over the whole bucket, not over the last year
coverage_empty_all_time(bucket, day) == DOMAIN bucket = {}

\* len(result) == 0 of the count over range(start: -1y)
coverage_empty(bucket, day) ==
    ~\E k \in DOMAIN bucket : day - CoverageDays <= k[3] /\ k[3] <= day

\* the for loop of __main__ goes on to another health() call
more_probes(n) == n < MaxProbes

NoQuery == [asked |-> FALSE, bucket |-> << >>, day |-> 0]

\* what the bucket may hold when the service starts
InitialBuckets(day) ==
    { << >>,
      upsert(<< >>, Point(MeteoRow(day - 2, 0))),
      upsert(<< >>, Point(MeteoRow(day - CoverageDays - 1, 0))) }

InitMainVars ==
    /\ mpc = "probe"
    /\ probes = 0
    /\ probeOk = FALSE
    /\ waits = 0
    /\ today = 0
    /\ influx \in InitialBuckets(today)
    /\ meteo_df = NoneDf
    /\ jobs = 0
    /\ coverageQuery = NoQuery
    /\ backfillRuns = 0
    /\ jobLog = << >>
    /\ influxAtFetch = << >>

\* lines 117-120: get_influx_client().health(), then break
Probe ==
    /\ mpc = "probe"
    /\ more_probes(probes)
    /\ probes' = probes + 1
    /\ \E returned \in BOOLEAN :
         IF returned
         THEN /\ mpc' = "initial_backfill"
              /\ probeOk' = TRUE
         ELSE /\ mpc' = "wait"
              /\ UNCHANGED probeOk
    /\ UNCHANGED <<waits, influx, meteo_df, today, jobs,
                   coverageQuery, backfillRuns, jobLog, influxAtFetch,
                   scraperVars, sinkVars>>

\* lines 121-123: the bare except sleeps; the exhausted loop falls through
Wait ==
    /\ mpc = "wait"
    /\ waits' = waits + 1
    /\ mpc' = IF more_probes(probes) THEN "probe" ELSE "initial_backfill"
    /\ UNCHANGED <<probes, probeOk, influx, meteo_df, today, jobs,
                   coverageQuery, backfillRuns, jobLog, influxAtFetch,
                   scraperVars, sinkVars>>

\* lines 91-97 and 103-105: the coverage query, which may raise
InitialBackfill ==
    /\ mpc = "initial_backfill"
    /\ \E answered \in BOOLEAN :
         /\ mpc' = IF ~answered THEN "crashed"
                   ELSE IF coverage_empty(influx, today) THEN "backfill_fetch"
                   ELSE "schedule"
         /\ coverageQuery' = IF answered
                             THEN [asked |-> TRUE, bucket |-> influx, day |-> today]
                             ELSE coverageQuery
    /\ UNCHANGED <<probes, probeOk, waits, influx, meteo_df, today, jobs,
                   backfillRuns, jobLog, influxAtFetch,
                   scraperVars, sinkVars>>

\* line 100
BackfillFetch ==
    /\ mpc = "backfill_fetch"
    /\ \E kind \in MeteoKinds :
         meteo_df' = fetch_open_meteo(kind, today, BackfillPastDays, BackfillFutureDays)
    /\ mpc' = "backfill_write"
    /\ backfillRuns' = backfillRuns + 1
    /\ UNCHANGED <<probes, probeOk, waits, influx, today, jobs,
                   coverageQuery, jobLog, influxAtFetch,
                   scraperVars, sinkVars>>

\* write_to_influx(df) called from a position, going on at `to`
CallWrite(to) ==
    /\ \E ok \in BOOLEAN : influx' = write_to_influx(influx, meteo_df, ok)
    /\ meteo_df' = NoneDf
    /\ mpc' = to

\* lines 101-102
BackfillWrite ==
    /\ mpc = "backfill_write"
    /\ CallWrite("schedule")
    /\ UNCHANGED <<probes, probeOk, waits, today, jobs,
                   coverageQuery, backfillRuns, jobLog, influxAtFetch,
                   scraperVars, sinkVars>>

\* line 127
Schedule ==
    /\ mpc = "schedule"
    /\ mpc' = "idle"
    /\ UNCHANGED <<probes, probeOk, waits, influx, meteo_df, today, jobs,
                   coverageQuery, backfillRuns, jobLog, influxAtFetch,
                   scraperVars, sinkVars>>

\* lines 129-131 and 108-109: an hour has passed, hourly_job fetches
JobFetch ==
    /\ mpc = "idle"
    /\ jobs < MaxJobs
    /\ jobs' = jobs + 1
    /\ \E d \in {today, today + 1} :
         /\ today' = d
         /\ \E kind \in MeteoKinds :
              /\ meteo_df' = fetch_open_meteo(kind, d, JobPastDays, JobFutureDays)
              /\ jobLog' = Append(jobLog, kind)
    /\ influxAtFetch' = influx
    /\ mpc' = "job_write"
    /\ UNCHANGED <<probes, probeOk, waits, influx, coverageQuery, backfillRuns,
                   scraperVars, sinkVars>>

\* line 110
JobWrite ==
    /\ mpc = "job_write"
    /\ CallWrite("idle")
    /\ UNCHANGED <<probes, probeOk, waits, today, jobs,
                   coverageQuery, backfillRuns, jobLog, influxAtFetch,
                   scraperVars, sinkVars>>

NextMain ==
    \/ Probe \/ Wait \/ InitialBackfill \/ BackfillFetch \/ BackfillWrite
    \/ Schedule \/ JobFetch \/ JobWrite

(***************************************************************************)
(* The sinks applied to a snapshot: flush_buffer and write_to_influx as    *)
(* functions of the store and the snapshot.                                *)
(***************************************************************************)
\* the DataFrame process_data gives for records at every tick of lo..hi
WindowFrame(lo, hi, rev) ==
    [i \in 1..(hi - lo + 1) |->
        [idx |-> lo + i - 1,
         val |-> SourceValue("temp", get_timestamp_ms(lo + i - 1), rev)]]

\* the Open-Meteo DataFrame with a record at every tick of lo..hi
MeteoFrame(lo, hi, rev) ==
    [none |-> FALSE, rows |-> [i \in 1..(hi - lo + 1) |-> MeteoRow(lo + i - 1, rev)]]

SinkWindows == {<<lo, hi>> \in (0..MaxLo) \X (0..MaxHi) : lo <= hi}

InitSinkVars ==
    /\ applied = 0
    /\ wapplied = 0
    /\ once = << >>
    /\ wonce = << >>

SinkFlush ==
    /\ applied < 2
    /\ data_lake' = flush_buffer(data_lake, monthly_buffer, 0)
    /\ applied' = applied + 1
    /\ once' = IF applied = 0 THEN data_lake' ELSE once
    /\ UNCHANGED <<pc, current_date, end_date, mi, monthly_buffer, faultsLeft,
                   start_anchor, windows, outcome, permAt, flushLog, lastFlushed,
                   flushFailed, fetched, crashBy, sleeps, dataEnd,
                   mainVars, wapplied, wonce>>

SinkWrite ==
    /\ wapplied < 2
    /\ influx' = write_to_influx(influx, meteo_df, TRUE)
    /\ wapplied' = wapplied + 1
    /\ wonce' = IF wapplied = 0 THEN influx' ELSE wonce
    /\ UNCHANGED <<scraperVars, mpc, probes, probeOk, waits, meteo_df, today, jobs,
                   coverageQuery, backfillRuns, jobLog, influxAtFetch,
                   applied, once>>

NextSink == SinkFlush \/ SinkWrite

(***************************************************************************)
(* Specifications                                                          *)
(***************************************************************************)
\* start offsets: before the stop date, or one tick more than k spans after it
Offsets == {-1} \cup {k * SpanTicks + 1 : k \in 0..(MaxWindows - 1)}

\* the backfill with an environment that may deviate MaxFaults times
Init ==
    /\ InitBackfill(Offsets, MaxFaults)
    /\ dataEnd = NoOutage
    /\ InitMainVars /\ influx = << >> /\ InitSinkVars

Next == NextBackfill \/ Interrupt

Spec == Init /\ [][Next]_vars

\* start offsets of the end-to-end runs: small ones, 59 days (2025-01-01 to
\* 2025-03-01) and 365 days
OffsetsE2E ==
    (-2..MaxNowE2E)
    \cup {59 * TicksPerDay, 59 * TicksPerDay + 1, 365 * TicksPerDay}

\* the backfill when every fetch returns data and every write succeeds
InitE2E ==
    /\ InitBackfill(OffsetsE2E, 0)
    /\ dataEnd = NoOutage
    /\ InitMainVars /\ influx = << >> /\ InitSinkVars

SpecE2E == InitE2E /\ [][NextBackfill]_vars

\* start offsets of the runs against a source with an outage: 5 windows
OffsetsOutage == {FlushThreshold * SpanTicks + e : e \in 1..TicksPerDay}

\* the backfill when every fetch and write succeeds and the records of one
\* metric end at some time: its sensor has reported nothing since
InitOutage ==
    /\ InitBackfill(OffsetsOutage, 0)
    /\ \E m \in MetricKeys, t \in 0..MaxOutageEnd :
          dataEnd = [NoOutage EXCEPT ![m] = end_date + t]
    /\ InitMainVars /\ influx = << >> /\ InitSinkVars

SpecOutage == InitOutage /\ [][NextBackfill]_vars

\* main.py's service
InitMain == InitBackfill({-1}, 0) /\ dataEnd = NoOutage /\ InitMainVars /\ InitSinkVars

SpecMain == InitMain /\ [][NextMain]_vars

\* the sinks applied twice to a snapshot of two windows
InitSink ==
    /\ pc = "final" /\ end_date = 0 /\ current_date = -1 /\ start_anchor = -1
    /\ mi = 1 /\ data_lake = << >> /\ faultsLeft = 0 /\ windows = 0
    /\ outcome = NoOutcome /\ permAt = 0 /\ flushLog = << >>
    /\ lastFlushed = EmptyBuffer /\ flushFailed = FALSE /\ fetched = {}
    /\ crashBy = "none" /\ sleeps = 0 /\ dataEnd = NoOutage
    /\ mpc = "job_write" /\ probes = 1 /\ probeOk = TRUE /\ waits = 0
    /\ today = 0 /\ jobs = 1 /\ influx = << >>
    /\ coverageQuery = NoQuery /\ backfillRuns = 0 /\ jobLog = << >>
    /\ influxAtFetch = << >>
    /\ InitSinkVars
    /\ \E w1 \in SinkWindows, w2 \in SinkWindows, rev \in {0, 1} :
         /\ monthly_buffer =
              [m \in MetricKeys |->
                 IF m = "temp"
                 THEN <<WindowFrame(w1[1], w1[2], 0), WindowFrame(w2[1], w2[2], rev)>>
                 ELSE IF m = "wind" THEN <<WindowFrame(w2[1], w2[2], rev)>>
                 ELSE << >>]
         /\ meteo_df = MeteoFrame(w1[1], w1[2], rev)

SpecSink == InitSink /\ [][NextSink]_vars

(***************************************************************************)
(* Properties                                                              *)
(***************************************************************************)
IdxSet(frame) == {frame[i].idx : i \in 1..Len(frame)}

IdxSeq(frame) == [i \in 1..Len(frame) |-> frame[i].idx]

FilesOf(m) == {f \in DOMAIN data_lake : f[1] = m}

MaxOf(S) == CHOOSE x \in S : \A y \in S : y <= x

\* the file a flush of data_list writes for metric m
FileFor(m, data_list) == <<m, strftime(MaxOf(IdxSet(concat(data_list))))>>

\* the value of the first, and of the last, row of c with index t
FirstAt(c, t) ==
    c[CHOOSE j \in 1..Len(c) : c[j].idx = t /\ \A k \in 1..(j - 1) : c[k].idx # t].val

LastAt(c, t) ==
    c[CHOOSE j \in 1..Len(c) : c[j].idx = t /\ \A k \in (j + 1)..Len(c) : c[k].idx # t].val

\* ceil((start_anchor - stop_time) / span), zero when stop_time >= start_anchor
Planned(start, stop) ==
    IF start > stop THEN ((start - stop) + SpanTicks - 1) \div SpanTicks ELSE 0

\* C1: after a backfill run, for every metric no two observations of the
\* destination store share a timestamp.
C1_NoDuplicateTimestamps ==
    pc = "done" =>
        \A m \in MetricKeys : \A f \in FilesOf(m), g \in FilesOf(m) :
            \A i \in 1..Len(data_lake[f]), j \in 1..Len(data_lake[g]) :
                (f # g \/ i # j) => data_lake[f][i].idx # data_lake[g][j].idx

Buffered(o) ==
    \E i \in 1..Len(monthly_buffer[o[1]]) : o[2] \in IdxSet(monthly_buffer[o[1]][i])

Stored(o) == \E f \in FilesOf(o[1]) : o[2] \in IdxSet(data_lake[f])

\* C3: every fetched and normalized observation is still buffered or already
\* stored, also after a flush failed.
C3_BufferedOrStored ==
    crashBy \in {"none", "flush"} => \A o \in fetched : Buffered(o) \/ Stored(o)

WindowTimes(m, anchor) ==
    LET p == Payload(m, get_timestamp_ms(anchor), SpanDays, 0)
    IN  {p[i].t \div MsPerTick : i \in 1..Len(p)}

\* C5: when the fetch of a metric fails for a window, every other metric whose
\* fetch gave data has the window's observations in its buffer, the failed
\* metric has none of this window, and the run goes on.
C5_FailedMetricSkipped ==
    /\ pc = "advance" =>
          \A m \in MetricKeys :
              /\ outcome[m] \in {"data", "revised"} =>
                    /\ monthly_buffer[m] # << >>
                    /\ IdxSet(monthly_buffer[m][Len(monthly_buffer[m])])
                          = WindowTimes(m, current_date)
              /\ outcome[m] \in {"transient", "permanent"} =>
                    \A i \in 1..Len(monthly_buffer[m]) :
                        MaxOf(IdxSet(monthly_buffer[m][i])) # current_date
    /\ (\E m \in MetricKeys : outcome[m] \in {"transient", "permanent"}) =>
          /\ pc = "crashed" => crashBy # "fetch"
          /\ pc \in {"check", "sleep"} =>
                current_date = start_anchor - windows * SpanTicks

\* C5 witness: the fetch of temp failed for a window and wind's data is buffered
C5_Witness ==
    /\ pc = "advance"
    /\ outcome["temp"] = "transient"
    /\ outcome["wind"] = "data"
    /\ monthly_buffer["temp"] = << >>
    /\ Len(monthly_buffer["wind"]) = 1

\* C6: backward planning issues exactly
\* ceil((start_anchor - stop_time) / span) windows, none when
\* stop_time >= start_anchor, 53 for 365 days, and then leaves the loop; the
\* k-th window's anchor is start_anchor - (k - 1) * span and only the last
\* window reaches below stop_time.
C6_WindowPlan ==
    /\ windows <= Planned(start_anchor, end_date)
    /\ pc = "while" =>
          (current_date > end_date <=> windows < Planned(start_anchor, end_date))
    /\ pc \in {"final", "done"} => windows = Planned(start_anchor, end_date)
    /\ (pc = "done" /\ start_anchor <= end_date) => windows = 0
    /\ (pc = "done" /\ start_anchor - end_date = 365 * TicksPerDay) => windows = 53
    /\ pc = "fetch" =>
          /\ current_date = start_anchor - (windows - 1) * SpanTicks
          /\ current_date - SpanTicks < end_date
                => windows = Planned(start_anchor, end_date)

\* C6 witness: the run over 365 days ended after 53 windows
C6_Witness ==
    pc = "done" /\ start_anchor - end_date = 365 * TicksPerDay /\ windows = 53

\* the windows after which the threshold flushes happen, n windows being complete
ThresholdFlushes(n) == [i \in 1..(n \div 4) |-> 4 * i]

C8_IdempotentFlush ==
    /\ applied = 2 => data_lake = once
    /\ wapplied = 2 => influx = wonce
    /\ \A f \in DOMAIN data_lake :
          Len(data_lake[f]) = Cardinality(IdxSet(data_lake[f]))

\* C8 witness: both sinks were applied twice to a non-empty snapshot
C8_Witness ==
    applied = 2 /\ wapplied = 2 /\ data_lake # << >> /\ influx # << >>

\* C9: the snapshot written for the windows of a flush unit holds exactly the
\* union of the windows' timestamps, each once; for the windows 0..7 and 5..12
\* these are the 13 timestamps 0..12.
C9_MergedTimestamps ==
    applied >= 1 =>
        \A m \in {"temp", "wind"} :
            LET f == FileFor(m, monthly_buffer[m])
                U == UNION {IdxSet(monthly_buffer[m][i]) :
                              i \in 1..Len(monthly_buffer[m])}
            IN  /\ FilesOf(m) = {f}
                /\ IdxSet(data_lake[f]) = U
                /\ Len(data_lake[f]) = Cardinality(U)
                /\ (m = "temp" /\ IdxSeq(monthly_buffer[m][1]) = [i \in 1..8 |-> i - 1]
                      /\ IdxSeq(monthly_buffer[m][2]) = [i \in 1..8 |-> i + 4])
                      => IdxSeq(data_lake[f]) = [i \in 1..13 |-> i - 1]

\* C9 witness: the windows 0..7 and 5..12 with equal values were merged
C9_Witness ==
    /\ applied >= 1
    /\ monthly_buffer["temp"] = <<WindowFrame(0, 7, 0), WindowFrame(5, 12, 0)>>
    /\ Len(data_lake[FileFor("temp", monthly_buffer["temp"])]) = 13

\* C10: the driver probes at most 10 times and is past the probes (in
\* initial_backfill or later) only after a probe succeeded.
C10_BootstrapOnlyWhenHealthy ==
    /\ probes <= 10
    /\ mpc \notin {"probe", "wait"} => probeOk

\* the coverage query found no point of the last year in the bucket
EmptyAtQuery ==
    \A k \in DOMAIN coverageQuery.bucket :
        k[3] < coverageQuery.day - CoverageDays \/ k[3] > coverageQuery.day

\* C11: in one run of main.py the driver first bootstraps (probes, coverage
\* query), then runs initial_backfill's fetch and write at most once, exactly
\* when the coverage query found no point of the last year, and runs no
\* hourly_job before the bootstrap and that backfill have finished.
C11_DriverOrder ==
    /\ backfillRuns <= 1
    /\ mpc \in {"probe", "wait", "initial_backfill"}
          => (~coverageQuery.asked /\ backfillRuns = 0 /\ jobs = 0)
    /\ mpc \in {"backfill_fetch", "backfill_write"}
          => (coverageQuery.asked /\ EmptyAtQuery /\ jobs = 0
              /\ backfillRuns = (IF mpc = "backfill_write" THEN 1 ELSE 0))
    /\ mpc \in {"schedule", "idle", "job_write"}
          => (coverageQuery.asked /\ (backfillRuns = 1 <=> EmptyAtQuery))
    /\ mpc = "crashed" => (backfillRuns = 0 /\ jobs = 0)
    /\ jobs > 0 => mpc \in {"idle", "job_write"}

\* C11 witness: a bucket whose only point is older than a year was
\* backfilled once and an hourly_job has run after it
C11_Witness ==
    /\ mpc = "idle"
    /\ jobs >= 1
    /\ backfillRuns = 1
    /\ coverageQuery.bucket # << >>

\* C12: a failed fetch of an hourly_job run writes nothing and does not end
\* the service: the bucket is as it was when the run began, the driver is back
\* in its scheduling loop, and the runs after it are executed.
C12_FailedFetchSkipsTick ==
    /\ (jobLog # << >> /\ jobLog[Len(jobLog)] = "error")
          => (influx = influxAtFetch /\ mpc \in {"job_write", "idle"}
              /\ (mpc = "job_write" => meteo_df.none))
    /\ (\E i \in 1..Len(jobLog) : jobLog[i] = "error")
          => (mpc \in {"job_write", "idle"} /\ jobs = Len(jobLog))

\* C12 witness: the first hourly_job run failed to fetch and the second one
\* fetched and wrote its points
C12_Witness ==
    /\ mpc = "idle"
    /\ jobLog = <<"error", "data">>
    /\ influx # influxAtFetch

\* C13: an error while normalizing one metric's payload (unexpected shape, or
\* an empty result) drops only that metric's data of the window: the run is
\* not ended by it and every metric of the window is still fetched.
C13_PayloadErrorDropsOneMetric ==
    /\ crashBy # "normalize"
    /\ (\E m \in MetricKeys : outcome[m] \in {"malformed", "empty"})
          => (pc = "advance" => \A m \in MetricKeys : outcome[m] # "none")

\* C14: when a stop signal ends a backfill, the observations fetched so far
\* have been flushed: every one of them is in the destination store.
C14_CleanStop == pc = "interrupted" => \A o \in fetched : Stored(o)

\* C15: at the start of every window step no metric's buffer holds more than
\* 3 windows, whatever fetches failed.
C15_BuffersBelowThreshold ==
    (pc = "while" \/ (pc = "fetch" /\ mi = 1)) =>
        \A m \in MetricKeys : Len(monthly_buffer[m]) < FlushThreshold

\* C16: when a backfill run has ended and no flush failed, every fetched and
\* normalized (metric, timestamp) is in a file of the destination store.
C16_AllFetchedStored ==
    (pc = "done" /\ ~flushFailed) => \A o \in fetched : Stored(o)

Ascending(frame) == \A i \in 1..(Len(frame) - 1) : frame[i].idx < frame[i + 1].idx

\* C17: every file written by a flush holds its rows in strictly ascending
\* order of timestamp, although the windows are appended newest first.
C17_FilesAscending == \A f \in DOMAIN data_lake : Ascending(data_lake[f])

\* C17 witness: a unit of 4 windows of temp, buffered newest first and so not
\* in ascending order, was written
C17_Witness ==
    /\ pc = "sleep"
    /\ Len(lastFlushed["temp"]) = FlushThreshold
    /\ ~Ascending(concat(lastFlushed["temp"]))
    /\ FileFor("temp", lastFlushed["temp"]) \in DOMAIN data_lake
    /\ Len(data_lake[FileFor("temp", lastFlushed["temp"])]) > FlushThreshold

\* C18: one time.sleep(1.5) lies between the fetches of a window and those of
\* the next: when the fetches of window k begin the loop has slept k - 1
\* times, also after a flush and after failed fetches.
C18_DelayBetweenWindows ==
    /\ pc \in {"fetch", "advance", "check", "sleep"} => sleeps = windows - 1
    /\ pc \in {"while", "final", "done"} => sleeps = windows

\* C18 witness: the fetches of window 5 begin after a fetch of window 4
\* failed and window 4 triggered a flush
C18_Witness ==
    /\ pc = "fetch"
    /\ windows = 5
    /\ permAt = 4
    /\ flushLog = <<4>>
    /\ sleeps = 4

\* the (timestamp, value) pairs of the rows of a list of DataFrames
RowsOf(data_list) ==
    LET c == concat(data_list) IN {<<c[i].idx, c[i].val>> : i \in 1..Len(c)}

====
